---- MODULE Spec2Model ----
(***************************************************************************)
(* The capture orchestrator of the Splunk dashboard automator.             *)
(*                                                                         *)
(* A run fans one task per dashboard out under an asyncio semaphore.       *)
(* Three orchestrators exist in the source:                                *)
(*   analysis : SplunkAutomatorApp.analyze_dashboards_async (retry loop),  *)
(*   capture  : SplunkAutomatorApp._capture_screenshots_async,             *)
(*   batch    : process_dashboards_batch (library entry point, no GUI).    *)
(* Every task runs SplunkDashboardProcessor.process_single_dashboard, the  *)
(* per-dashboard session.                                                  *)
(*                                                                         *)
(* Granularity.  A coroutine runs without interruption between two awaits, *)
(* so one action is the code from one await of a task to its next one.     *)
(* The awaits inside one helper (_navigate_to_dashboard, ...) are taken    *)
(* together: the helper is one step of the session.                        *)
(* A callback posted with master.after(0, f) is taken at the point where   *)
(* it is posted (Tk runs them in posting order).                           *)
(* The body of process_single_dashboard is wrapped in timing_context(),    *)
(* whose __enter__ and __exit__ call methods the logger manager need not   *)
(* have: entering and leaving the session may raise.                       *)
(*                                                                         *)
(* Runs.  Spec is the application (or a batch caller) without a schedule.  *)
(* SchedSpec adds the scheduled analysis: a scheduled run can start while  *)
(* the time range dialog of a manual start is open.  The model follows one *)
(* run in full.  A run that is started while another one is in progress    *)
(* (see wait_window) takes its place; of the run it overtakes the model    *)
(* keeps the sessions that were open, until that run has ended, and no     *)
(* further run is started before then.                                     *)
(*                                                                         *)
(* The functions of one session step (the time-range encoder, the          *)
(* dashboard type detector, the authentication handler, the readiness      *)
(* waiter) and the status update of a row are applied to inputs drawn from *)
(* bounded sets under FnSpec.                                              *)
(***************************************************************************)
EXTENDS Integers, Sequences, FiniteSets, TLC

\* ---- bounds of the model ------------------------------------------------
\* dashboards selected for a capture-only run or handed to a batch
NumDashboards == 3

\* dashboards selected for a full-analysis run (each may take `retries` attempts)
NumAnalysed == 2

\* largest max_concurrent argument given to process_dashboards_batch
MaxConcurrentArg == 2

\* ---- constants of the program -------------------------------------------
retries == 3

AnalysisConcurrency == 3

CaptureConcurrency == 2

MAX_CONCURRENT_BROWSERS == 3

VARIABLES
    cancel_flag,      \* self.cancel_flag (threading.Event)
    current_thread,   \* self.current_thread: "None" or "thread" (alive)
    cancel_button,    \* the Cancel button is packed (visible)
    destroy_pending,  \* master.after(1000, master.destroy) is armed
    destroyed,        \* the main window is destroyed: the process has exited
    kind,             \* orchestrator of the current run
    phase,            \* "idle" | "running" | "ended" | "exited"
    total,            \* len(dashboards) of the run
    capture_only,     \* the capture_only argument given to the sessions
    limit,            \* the value the run's semaphore was created with
    semaphore,        \* asyncio.Semaphore._value
    pc,               \* position of each dashboard's task
    attempts,         \* calls of process_single_dashboard made for a dashboard
    success,          \* the session's result so far / last result
    browser,          \* dashboards whose session holds a launched browser
    status,           \* db['status'] of the dashboards selected for the run
    reports,          \* terminal statuses posted for a dashboard in this run
    completed,        \* the nonlocal counter `completed`
    results,          \* the list process_dashboards_batch returns
    cancel_seen,      \* the flag was set at some time during this run
    finished,         \* the tasks of a batch in the order in which they finished
    response,         \* what the step a session has just taken gave it (what
                      \* page.goto gave, the type detected, what the wait gave)
    dialog,           \* the TimeRangeDialog a run start is waiting on
    schedule_active,  \* self.schedule_active
    earlier,          \* dashboards with an open session of an overtaken run
    base_url,         \* encoder: the base_url argument
    start_dt,         \* encoder: the start_dt argument
    end_dt,           \* encoder: the end_dt argument
    is_studio,        \* encoder: the is_studio argument (the variant tag)
    full_url,         \* encoder: the value returned
    calls,            \* encoder: the functions applied so far, in order
    page,             \* detector: the page (the selectors it shows, its URL)
    dashboard_type,   \* detector: the value returned
    probes,           \* detector: wait_for_selector calls that timed out
    login_page,       \* authentication: the page the handler is given
    login,            \* authentication: what the handler did and returned
    readiness,        \* waiter: the variant and the conditions that come to hold
    waited,           \* waiter: what the waiter did and returned
    selected_dbs,     \* status update: the stored dashboards selected for the run
    db_status,        \* status update: db['status'] of every stored dashboard
    treeview,         \* status update: the status shown in every row
    issued,           \* status update: the dashboard the update was issued for
    shot,             \* capture: the page given to _capture_screenshot
    viewport,         \* capture: the viewport height after the sizing, and
                      \* whether the capture went on to the screenshot
    file,             \* dashboard store: the content of Config.DASHBOARD_FILE
    cache,            \* dashboard store: DashboardManager.cache
    cache_fresh,      \* dashboard store: cache_timestamp is younger than cache_ttl
    before,           \* dashboard store: file and cache when the last call began
    last,             \* dashboard store: the last call and what it returned
    captures,         \* screenshot files: the captures of a run, name and time
    saved,            \* screenshot files: the paths saved so far, in capture order
    schedule_thread,  \* schedule: self.schedule_thread
    workers,          \* schedule: where each schedule_worker thread is
    dismissed,        \* schedule: the workers alive at a cancel_scheduled_analysis
    late,             \* schedule: the dismissed workers that posted a run since
    tasks,            \* background tasks: BackgroundTaskManager.tasks
    task_counter,     \* background tasks: BackgroundTaskManager.task_counter
    start_pc,         \* background tasks: where each call of start_task is
    thread_pc         \* background tasks: where the thread of each call is

gui_vars == <<cancel_flag, current_thread, cancel_button, destroy_pending, destroyed>>

run_vars == <<kind, phase, total, capture_only, limit, results, cancel_seen>>

task_vars == <<semaphore, pc, attempts, success, browser, status, reports, completed>>

dialog_vars == <<dialog, schedule_active, earlier>>

enc_vars == <<base_url, start_dt, end_dt, is_studio, full_url, calls>>

det_vars == <<page, dashboard_type, probes>>

auth_vars == <<login_page, login>>

wait_vars == <<readiness, waited>>

upd_vars == <<selected_dbs, db_status, treeview, issued>>

view_vars == <<shot, viewport>>

\* the functions of a session step and the status update
step_vars == <<enc_vars, det_vars, auth_vars, wait_vars, upd_vars>>

store_vars == <<file, cache, cache_fresh, before, last>>

file_vars == <<captures, saved>>

sched_vars == <<schedule_thread, workers, dismissed, late>>

btm_vars == <<tasks, task_counter, start_pc, thread_pc>>

\* the capture sizing, the dashboard store, the screenshot files, the
\* schedule workers and the background tasks
lib_vars == <<view_vars, store_vars, file_vars, sched_vars, btm_vars>>

\* all of them but one
except_view == <<store_vars, file_vars, sched_vars, btm_vars>>

except_store == <<view_vars, file_vars, sched_vars, btm_vars>>

except_file == <<view_vars, store_vars, sched_vars, btm_vars>>

except_sched == <<view_vars, store_vars, file_vars, btm_vars>>

except_btm == <<view_vars, store_vars, file_vars, sched_vars>>

fn_vars == <<enc_vars, det_vars, auth_vars, wait_vars, upd_vars, lib_vars>>

app_vars == <<gui_vars, run_vars, task_vars, finished, response, dialog_vars>>

vars == <<gui_vars, run_vars, task_vars, finished, response, dialog_vars, fn_vars>>

Dashboards == 1..NumDashboards

RunSet == 1..total

\* ---- pure helpers ---------------------------------------------------------

\* max_concurrent = max_concurrent or Config.MAX_CONCURRENT_BROWSERS; 0 stands for None
EffectiveConcurrency(mc) == IF mc = 0 THEN MAX_CONCURRENT_BROWSERS ELSE mc

SemaphoreSize(k, mc) ==
    CASE k = "analysis" -> AnalysisConcurrency
      [] k = "capture"  -> CaptureConcurrency
      [] OTHER          -> EffectiveConcurrency(mc)

CanAcquireOffByOne(s) == s >= 0

\* asyncio.Semaphore: acquire() passes without waiting iff _value > 0
CanAcquire(s) == s > 0

ReleaseLost(s) == s

ReleaseTwice(s) == s + 2

\* asyncio.Semaphore.release()
Release(s) == s + 1

CountedTwice(c) == c + 2

\* completed += 1
Counted(c) == c + 1

CancelCheckSkipped(flag) == FALSE

\* self.cancel_flag.is_set()
CancelCheck(flag) == flag

RetryAgainOffByOne(attempt) == attempt < retries

\* `attempt < retries - 1` for the loop variable attempt (0-based)
RetryAgain(attempt) == attempt < retries - 1

\* What the orchestrator does with the result r of attempt number `attempt`
\* (0-based) of a session: the status it posts, whether the task goes on to
\* sleep before a retry or ends, and whether the status is a terminal one.
Outcome(k, r, attempt) ==
    CASE k = "analysis" ->
            IF r = "True"
            THEN [status |-> "Complete", next |-> "done", terminal |-> TRUE]
            ELSE IF RetryAgain(attempt)
            THEN [status |-> IF r = "exc" THEN "Error - Retry" ELSE "Retry",
                  next |-> "sleep", terminal |-> FALSE]
            ELSE [status |-> "Failed", next |-> "done", terminal |-> TRUE]
      [] k = "capture" ->
            [status |-> CASE r = "True" -> "Captured"
                          [] r = "False" -> "Failed"
                          [] OTHER -> "Error",
             next |-> "done", terminal |-> TRUE]
      [] OTHER ->
            [status |-> "", next |-> "done", terminal |-> FALSE]

\* a session of dashboard d is between its call and its return
InSession(d) == pc[d] \in {"launch", "navigate", "authenticate", "detect",
                           "wait", "capture", "analysis", "close"}

\* What page.goto can give: a timeout (PlaywrightTimeoutError), no response
\* object (None), or a response with an HTTP status.
NavigationOutcomes == {"timeout", "None", "200", "400"}

\* response.status of an outcome that is a response
StatusOf(o) == CASE o = "200" -> 200 [] o = "400" -> 400 [] OTHER -> 0

NavigationOkAnyStatus(o) == o # "timeout"

\* _navigate_to_dashboard returns True: goto did not raise, and not
\* `response and response.status >= 400`
NavigationOk(o) == o # "timeout" /\ ~(o # "None" /\ StatusOf(o) >= 400)

GatherAsCompleted(order, su, n) == [i \in 1..n |-> su[order[i]]]

\* asyncio.gather: the values of the n tasks in the order of the awaitables
\* it was given, whatever the order `order` in which they finished
GatherResults(order, su, n) == [i \in 1..n |-> su[i]]

\* [result if isinstance(result, bool) else False for result in results]
ExceptionsToFalse(rs) == [i \in DOMAIN rs |-> rs[i] = "True"]

\* ---- the time-range encoder ------------------------------------------------
\* A URL is the sequence of its characters; the text of a parameter name or
\* of a time value is one element (it holds no '?' and no part of 'studio').
\* A time argument is a record: type "str" (a relative token), "datetime" (an
\* instant, ms its epoch milliseconds) or "bad" (an instant whose timestamp()
\* raises); text is what an f-string makes of it.

Paths ==
    { <<"h", "/", "d">>,
      <<"h", "/", "s", "t", "u", "d", "i", "o", "/", "d">>,
      <<"h", "/", "S", "t", "u", "d", "i", "O">> }

Queries ==
    { <<>>,
      <<"?", "a", "=", "1">>,
      <<"?", "a", "?", "b">>,
      <<"?", "s", "t", "u", "d", "i", "o">> }

BaseUrls == {p \o q : p \in Paths, q \in Queries}

TimeValues ==
    { [type |-> "str", text |-> "-24h", ms |-> 0],
      [type |-> "str", text |-> "now", ms |-> 0],
      [type |-> "datetime", text |-> "1970-01-01 00:00:01.500000", ms |-> 1500],
      [type |-> "datetime", text |-> "1969-12-31 23:59:58.500000", ms |-> -1500],
      [type |-> "bad", text |-> "bad", ms |-> 0] }

NoTime == [type |-> "none", text |-> "", ms |-> 0]

\* str.lower() of one character
LowerChar(c) ==
    CASE c = "S" -> "s" [] c = "T" -> "t" [] c = "U" -> "u"
      [] c = "D" -> "d" [] c = "I" -> "i" [] c = "O" -> "o"
      [] OTHER -> c

\* url.lower()
LowerUrl(u) == [i \in 1..Len(u) |-> LowerChar(u[i])]

\* 'studio' in u  (the other pattern of the source, '/app/splunk_dashboard_studio/',
\* contains 'studio': any() of the two is this test)
ContainsStudio(u) ==
    \E i \in 1..(Len(u) - 5) : SubSeq(u, i, i + 5) = <<"s", "t", "u", "d", "i", "o">>

\* the index of the first '?' of u, Len(u) + 1 if it has none
FirstQuery(u) ==
    IF \E i \in 1..Len(u) : u[i] = "?"
    THEN CHOOSE i \in 1..Len(u) : u[i] = "?" /\ \A j \in 1..(i - 1) : u[j] # "?"
    ELSE Len(u) + 1

KeepQuery(u) == u

StripAtLastQuery(u) ==
    IF \E i \in 1..Len(u) : u[i] = "?"
    THEN SubSeq(u, 1, (CHOOSE i \in 1..Len(u) :
                          u[i] = "?" /\ \A j \in (i + 1)..Len(u) : u[j] # "?") - 1)
    ELSE u

\* base_url.split('?')[0]
StripQuery(u) == SubSeq(u, 1, FirstQuery(u) - 1)

\* any(pattern in base_url.lower() for pattern in [...'studio'])
IsStudioUrl(u) == ContainsStudio(LowerUrl(u))

EitherStr(s, e) == s.type = "str" \/ e.type = "str"

\* isinstance(start_dt, str) and isinstance(end_dt, str)
BothStr(s, e) == s.type = "str" /\ e.type = "str"

\* hasattr(t, 'timestamp')
HasTimestamp(t) == t.type \in {"datetime", "bad"}

\* t.timestamp() raises
TimestampRaises(t) == t.type = "bad"

\* int(t.timestamp()): the float of seconds is truncated towards zero
EpochSeconds(ms) == IF ms >= 0 THEN ms \div 1000 ELSE -((-ms) \div 1000)

\* the text the URL gets for the end t of the range (s, e)
TimeParam(s, e, t) ==
    IF BothStr(s, e) THEN t.text
    ELSE IF HasTimestamp(t) THEN ToString(EpochSeconds(t.ms))
    ELSE t.text

\* the conversion of the two ends raises
EncodingRaises(s, e) ==
    ~BothStr(s, e) /\ (TimestampRaises(s) \/ TimestampRaises(e))

ParamPrefix(studio) == IF studio THEN "form.global_time" ELSE "form.time_field"

\* '&'.join(f'{k}={v}' for k, v in params.items())
ParamString(prefix, earliest, latest) ==
    <<prefix, ".earliest=", earliest, "&", prefix, ".latest=", latest>>

\* SplunkDashboardProcessor._format_time_for_url: the handler of its try
\* returns base_url, which the first statement has rebound to the stripped URL
processor_format_time_for_url(url, s, e) ==
    LET base == StripQuery(url)
    IN  IF EncodingRaises(s, e)
        THEN base
        ELSE base \o <<"?">> \o
             ParamString(ParamPrefix(IsStudioUrl(base)),
                         TimeParam(s, e, s), TimeParam(s, e, e))

\* the module's format_time_for_url: is_studio is accepted and not used
format_time_for_url(url, s, e, tag) == processor_format_time_for_url(url, s, e)

\* SplunkAutomatorApp.format_time_for_url: the parameters are built before the
\* URL is stripped, so its handler returns the URL as it was given
gui_format_time_for_url(url, s, e, tag) ==
    IF EncodingRaises(s, e)
    THEN url
    ELSE StripQuery(url) \o <<"?">> \o
         ParamString(ParamPrefix(tag), TimeParam(s, e, s), TimeParam(s, e, e))

\* ---- the dashboard type detector -------------------------------------------
\* A page is the set of selectors that resolve on it within a probe (any
\* other probe times out or fails) and its URL.

studio_selectors ==
    <<"splunk-dashboard-view", "dashboard-view", "[data-test=dashboard-view]">>

classic_selectors ==
    <<".dashboard-body", "#dashboard", ".dashboard-element", ".dashboard-panel">>

Range(f) == {f[i] : i \in DOMAIN f}

PageUrls ==
    { <<"h", "/", "d">>,
      <<"h", "/", "s", "t", "u", "d", "i", "o", "/", "d">>,
      <<"h", "/", "S", "T", "U", "D", "I", "O">> }

Pages ==
    [shows : SUBSET (Range(studio_selectors) \cup Range(classic_selectors)),
     url : PageUrls]

\* `for selector in selectors: try: await page.wait_for_selector(...); return
\* except: continue`: the index of the first selector that resolves, 0 if the
\* loop ends without one
FirstResolved(selectors, shows) ==
    IF \E i \in 1..Len(selectors) : selectors[i] \in shows
    THEN CHOOSE i \in 1..Len(selectors) :
            selectors[i] \in shows /\ \A j \in 1..(i - 1) : selectors[j] \notin shows
    ELSE 0

TimedOutAll(selectors, hit) == Len(selectors)

\* the probes of one loop that did not resolve, given the index it stopped at
TimedOut(selectors, hit) == IF hit = 0 THEN Len(selectors) ELSE hit - 1

UrlMethodSkipped(url) == FALSE

\* Method 2: any(pattern in page.url.lower() for pattern in ['studio', 'dashboard_studio'])
UrlSaysStudio(url) == ContainsStudio(LowerUrl(url))

\* _detect_dashboard_type: the type it returns (True is "studio", False is
\* "classic") and the number of probes it waited through without result
detect_dashboard_type(pg) ==
    LET st == FirstResolved(studio_selectors, pg.shows)
        cl == FirstResolved(classic_selectors, pg.shows)
    IN  IF st # 0
        THEN [type |-> "studio", probes |-> TimedOut(studio_selectors, st)]
        ELSE IF UrlSaysStudio(pg.url)
        THEN [type |-> "studio", probes |-> TimedOut(studio_selectors, st)]
        ELSE [type |-> "classic",
              probes |-> TimedOut(studio_selectors, st) + TimedOut(classic_selectors, cl)]

\* ---- the authentication handler ---------------------------------------------
\* The page the session is on after navigation, as the handler sees it: whether
\* a username input resolves within a probe, whether a password selector and a
\* submit selector match an element, and where the page is after the submit
\* ("left": off the login path; "stays": still on it when the wait times out;
\* "back": off it, and on a login URL again after the pause).

LoginPages ==
    [username : BOOLEAN, password : BOOLEAN, submit : BOOLEAN,
     after : {"left", "stays", "back"}]

NoLoginPage == [username |-> FALSE, password |-> FALSE, submit |-> FALSE, after |-> "none"]

NotLoggedIn == [result |-> "none", filled |-> {}, submitted |-> "none", then |-> "none"]

username_field_found(lp) == "element"

\* username_field after the probe loop: the element of the first selector
\* that resolves, None if every wait_for_selector timed out
username_field(lp) == IF lp.username THEN "element" ELSE "None"

\* password_field after its loop: page.locator(selector) is a Locator object
\* whether or not it matches; the loop leaves the first one with count() > 0,
\* and the Locator of the last selector if none has
password_field(lp) == IF lp.password THEN "locator" ELSE "empty locator"

\* submit_button after its loop, in the same way
submit_button(lp) == IF lp.submit THEN "locator" ELSE "empty locator"

\* `not x`: of the values a field can have only None is falsy
Not(x) == x = "None"

\* fill, click or press on a Locator that matches no element waits for one
\* and raises TimeoutError
ActionRaises(x) == x = "empty locator"

LoginAssumed(after) == TRUE

\* wait_for_function returns in time and 'login' is not in page.url after the pause
LoginCompleted(after) == after = "left"

\* process_single_dashboard after _handle_authentication: `if not
\* login_success: return False`, else on to _wait_for_dashboard_load
AfterAuthentication(login_success) ==
    IF login_success THEN [pc |-> "detect", success |-> "none"]
                     ELSE [pc |-> "close", success |-> "False"]

\* what the handler has done when it returns with result r
Login(r, fields, submit) ==
    [result |-> IF r THEN "True" ELSE "False", filled |-> fields, submitted |-> submit,
     then |-> AfterAuthentication(r).pc]

\* _handle_authentication: every exception inside is caught and gives False
handle_authentication(lp) ==
    IF Not(username_field(lp)) THEN Login(TRUE, {}, "none")
    ELSE IF Not(password_field(lp)) THEN Login(FALSE, {"username"}, "none")
    ELSE IF ActionRaises(password_field(lp)) THEN Login(FALSE, {"username"}, "none")
    ELSE IF ~Not(submit_button(lp))
         THEN IF ActionRaises(submit_button(lp))
              THEN Login(FALSE, {"username", "password"}, "none")
              ELSE Login(LoginCompleted(lp.after), {"username", "password"}, "click")
         ELSE Login(LoginCompleted(lp.after), {"username", "password"}, "Enter")

\* the types the detections of the sessions can return
DetectedTypes == {detect_dashboard_type(pg).type : pg \in Pages}

\* the results the handler can return to the sessions
LoginResults == {handle_authentication(lp).result : lp \in LoginPages}

\* ---- the readiness waiter ----------------------------------------------------
\* The waits of each variant in the order of the source, the first being the
\* wait for the root container.  The page is the set of conditions that come
\* to hold within their timeout.

studio_conditions ==
    <<"splunk-dashboard-view", "visualizations", "loading cleared", "data populated">>

classic_conditions ==
    <<".dashboard-body, #dashboard", ".dashboard-panel, .panel, .dashboard-element",
      "searches completed", "visualizations rendered", "loading cleared">>

ConditionsOf(variant) ==
    IF variant = "studio" THEN studio_conditions ELSE classic_conditions

Readiness ==
    [variant : {"studio"}, holds : SUBSET Range(studio_conditions)]
    \cup [variant : {"classic"}, holds : SUBSET Range(classic_conditions)]

NoReadiness == [variant |-> "none", holds |-> {}]

NotWaited == [result |-> "none", waited |-> <<>>, paused |-> FALSE, then |-> "none"]

AfterWaitEscalated(load_success) ==
    IF load_success THEN [pc |-> "capture", success |-> "none"]
                    ELSE [pc |-> "close", success |-> "False"]

\* process_single_dashboard after _wait_for_dashboard_load: `if not
\* load_success:` logs a warning, and the capture follows in either case
AfterWait(load_success) == [pc |-> "capture", success |-> "none"]

\* the index of the first wait that raises PlaywrightTimeoutError, 0 if none does
FirstTimeout(conditions, holds) ==
    IF \E i \in 1..Len(conditions) : conditions[i] \notin holds
    THEN CHOOSE i \in 1..Len(conditions) :
            conditions[i] \notin holds /\ \A j \in 1..(i - 1) : conditions[j] \in holds
    ELSE 0

\* what the waiter has done when it returns: the conditions it waited on,
\* whether it made the stabilization pause, its result
Waited(conditions, n, pause) ==
    [result |-> IF pause THEN "True" ELSE "False", waited |-> SubSeq(conditions, 1, n),
     paused |-> pause, then |-> AfterWait(pause).pc]

\* _wait_for_studio_dashboard / _wait_for_classic_dashboard: the waits are
\* statements of one try block, so the first timeout leaves the block for the
\* handler, which returns False; entering timing_context may raise, which the
\* second handler turns into False as well
wait_for_dashboard(rd) ==
    LET conditions == ConditionsOf(rd.variant)
        t == FirstTimeout(conditions, rd.holds)
    IN  { Waited(conditions, IF t = 0 THEN Len(conditions) ELSE t, t = 0),
          Waited(conditions, 0, FALSE) }

\* what the session keeps of a wait for the step that follows
WaitGave(rd, w) ==
    CASE w.result = "True" -> "loaded"
      [] Len(w.waited) = 1 -> "root timeout"
      [] OTHER -> "timeout"

\* what the waits of the sessions can give, by variant
WaitsGiven ==
    UNION { { [variant |-> rd.variant, gave |-> WaitGave(rd, w)] :
                  w \in wait_for_dashboard(rd) } : rd \in Readiness }

\* ---- the capture sizing --------------------------------------------------------
\* The page given to _capture_screenshot: the type the detection gives for
\* it, the scrollHeight its script finds, the viewport height the context
\* was created with, and whether evaluate or set_viewport_size raises.

MAX_SCREENSHOT_HEIGHT == 10000

DEFAULT_VIEWPORT_HEIGHT == 720

StudioViewportHeight == 900

Min(a, b) == IF a <= b THEN a ELSE b

ScrollHeights == {0, 620, 9899, 9900, 9901, 10000, 25000}

Shots ==
    [type : {"studio", "classic"}, scrollHeight : ScrollHeights,
     height : {DEFAULT_VIEWPORT_HEIGHT, StudioViewportHeight},
     resize : {"done", "raises"}]

NoShot == [type |-> "none", scrollHeight |-> 0, height |-> 0, resize |-> "none"]

NotSized == [height |-> 0, proceeds |-> FALSE]

\* Math.min(dashboard.scrollHeight, 10000) of the script evaluated in the page
ContentHeight(scrollHeight) == Min(scrollHeight, 10000)

ViewportUnbounded(dashboard_height) == dashboard_height + 100

\* min(dashboard_height + 100, Config.MAX_SCREENSHOT_HEIGHT)
ViewportHeight(dashboard_height) == Min(dashboard_height + 100, MAX_SCREENSHOT_HEIGHT)

\* _capture_screenshot up to the screenshot: for a page detected as Studio the
\* viewport is resized inside a try of its own, whose handler only warns
capture_viewport(sh) ==
    IF sh.type = "studio" /\ sh.resize = "done"
    THEN [height |-> ViewportHeight(ContentHeight(sh.scrollHeight)), proceeds |-> TRUE]
    ELSE [height |-> sh.height, proceeds |-> TRUE]

\* ---- the dashboard store -------------------------------------------------------
\* A dashboard is its name (a sequence of characters), whether its url passes
\* _is_valid_url, and its status, which stands for the runtime fields
\* (status, selected, last_run, error_count). The timestamps are left out.

MaxStored == 3

MaxImported == 2

DashboardNames == { <<"D">>, <<"d">>, <<"S">> }

\* str.lower()
lower(name) == [i \in 1..Len(name) |-> LowerChar(name[i])]

\* the dashboards handed to the store: two names that differ in case only, a
\* third one, one with runtime state, one with an invalid url
DashboardDicts ==
    { [name |-> <<"D">>, url_ok |-> TRUE, status |-> "Pending"],
      [name |-> <<"D">>, url_ok |-> TRUE, status |-> "Captured"],
      [name |-> <<"d">>, url_ok |-> TRUE, status |-> "Pending"],
      [name |-> <<"S">>, url_ok |-> TRUE, status |-> "Pending"],
      [name |-> <<"S">>, url_ok |-> FALSE, status |-> "Pending"] }

\* the lists of at most n elements of S
ListsOf(S, n) == UNION { [1..k -> S] : k \in 0..n }

AbsentFile == [state |-> "absent", dashboards |-> <<>>]

\* a file json.load does not read: a write that stopped half way
CorruptFile == [state |-> "corrupt", dashboards |-> <<>>]

ListFile(save_data) == [state |-> "list", dashboards |-> save_data]

\* self.cache = None
NoCache == [set |-> FALSE, dashboards |-> <<>>]

Cached(ds) == [set |-> TRUE, dashboards |-> ds]

NoCall == [op |-> "none", result |-> "none", served |-> "none", loaded |-> <<>>]

\* the entry written for a dashboard: the runtime fields are removed
SaveDashboard(d) == [name |-> d.name, url_ok |-> d.url_ok]

\* _validate_dashboard of an entry read from the file: the runtime fields
\* get their defaults
CleanedDashboard(e) == [name |-> e.name, url_ok |-> e.url_ok, status |-> "Pending"]

\* _is_cache_valid: `not self.cache` holds of None and of the empty list
is_cache_valid(c, fresh) == c.set /\ c.dashboards # <<>> /\ fresh

\* load_dashboards: what it returns, where from, and the cache it leaves.
\* The list returned is a copy whose elements are the cache's own.
load_dashboards(use_cache, f, c, fresh) ==
    IF use_cache /\ is_cache_valid(c, fresh)
    THEN [result |-> c.dashboards, served |-> "cache", cache |-> c, fresh |-> fresh]
    ELSE IF f.state = "absent"
    THEN [result |-> <<>>, served |-> "file", cache |-> Cached(<<>>), fresh |-> TRUE]
    ELSE IF f.state = "corrupt"
    THEN [result |-> <<>>, served |-> "file", cache |-> c, fresh |-> fresh]
    ELSE LET cleaned == [i \in 1..Len(f.dashboards) |-> CleanedDashboard(f.dashboards[i])]
         IN [result |-> cleaned, served |-> "file", cache |-> Cached(cleaned), fresh |-> TRUE]

WriteOutcomes == {"written", "open fails", "dump fails", "chmod fails"}

\* save_dashboards. Strict validation raises on an invalid url, and the
\* handler then reads backup_path before it was assigned, so the call raises.
\* create_backup names the bool parameter in this body: with a backup
\* requested and the file present the call of it raises, backup_path is None
\* and the handler returns False. Otherwise the file is opened for writing,
\* dumped and chmod-ed; nothing restores it when one of these fails.
save_dashboards(dashboards, create_backup, write, f, c, fresh) ==
    LET unchanged(r) == [result |-> r, file |-> f, cache |-> c, fresh |-> fresh]
        save_data == [i \in 1..Len(dashboards) |-> SaveDashboard(dashboards[i])]
    IN IF \E i \in 1..Len(dashboards) : ~dashboards[i].url_ok
       THEN unchanged("raises")
       ELSE IF create_backup /\ f.state # "absent"
       THEN unchanged("False")
       ELSE CASE write = "open fails" -> unchanged("False")
              [] write = "dump fails" ->
                    [result |-> "False", file |-> CorruptFile, cache |-> c, fresh |-> fresh]
              [] write = "chmod fails" ->
                    [result |-> "False", file |-> ListFile(save_data), cache |-> c,
                     fresh |-> fresh]
              [] OTHER ->
                    [result |-> "True", file |-> ListFile(save_data),
                     cache |-> Cached(dashboards), fresh |-> TRUE]

\* `except Exception: return False` of the operations that end with a save
SavedOrFalse(s) == [s EXCEPT !.result = IF s.result = "True" THEN "True" ELSE "False"]

\* add_dashboard
add_dashboard(name, url_ok, write, f, c, fresh) ==
    LET l == load_dashboards(TRUE, f, c, fresh)
        dashboards == l.result
        existing_names == {lower(dashboards[i].name) : i \in 1..Len(dashboards)}
        new_dashboard == [name |-> name, url_ok |-> url_ok, status |-> "Pending"]
    IN IF lower(name) \in existing_names \/ ~url_ok
       THEN [result |-> "False", file |-> f, cache |-> l.cache, fresh |-> l.fresh]
       ELSE SavedOrFalse(save_dashboards(Append(dashboards, new_dashboard), TRUE, write,
                                         f, l.cache, l.fresh))

\* update_dashboard: the dashboard found is the cache's own element, and
\* dashboard.update(updates) changes it in place before anything is validated
update_dashboard(dashboard_name, updates, write, f, c, fresh) ==
    LET l == load_dashboards(TRUE, f, c, fresh)
        dashboards == l.result
        found == {i \in 1..Len(dashboards) : dashboards[i].name = dashboard_name}
    IN IF found = {}
       THEN [result |-> "False", file |-> f, cache |-> l.cache, fresh |-> l.fresh]
       ELSE LET dashboard_index == CHOOSE i \in found : \A j \in found : i <= j
                dashboard == [dashboards[dashboard_index] EXCEPT
                                 !.name = updates.name, !.url_ok = updates.url_ok]
                updated == [dashboards EXCEPT ![dashboard_index] = dashboard]
                shared == Cached(updated)
            IN IF ~updates.url_ok
               THEN [result |-> "False", file |-> f, cache |-> shared, fresh |-> l.fresh]
               ELSE SavedOrFalse(save_dashboards(updated, TRUE, write, f, shared, l.fresh))

\* delete_dashboards
delete_dashboards(dashboard_names, write, f, c, fresh) ==
    LET l == load_dashboards(TRUE, f, c, fresh)
        remaining_dashboards == SelectSeq(l.result, LAMBDA d : d.name \notin dashboard_names)
    IN SavedOrFalse(save_dashboards(remaining_dashboards, TRUE, write, f, l.cache, l.fresh))

MergeModes == {"skip_duplicates", "update_duplicates", "rename_duplicates"}

\* f"{base_name}_{counter}"
Renamed(base_name, counter) == base_name \o <<"_", ToString(counter)>>

\* the first counter from n on whose name is not among the existing names
RECURSIVE FreeCounter(_, _, _)
FreeCounter(base_name, existing_names, n) ==
    IF lower(Renamed(base_name, n)) \in existing_names
    THEN FreeCounter(base_name, existing_names, n + 1)
    ELSE n

\* dashboard_name_lower = validated['name'].lower()
ImportKey(name) == lower(name)

\* the loop of import_dashboards over the entries from position i on
RECURSIVE ImportLoop(_, _, _, _, _, _)
ImportLoop(data, i, merge_mode, existing_dashboards, existing_names, imported_count) ==
    IF i > Len(data)
    THEN [dashboards |-> existing_dashboards, imported_count |-> imported_count]
    ELSE LET validated == data[i]
             dashboard_name_lower == ImportKey(validated.name)
         IN IF dashboard_name_lower \in existing_names
            THEN CASE merge_mode = "skip_duplicates" ->
                        ImportLoop(data, i + 1, merge_mode, existing_dashboards,
                                   existing_names, imported_count)
                   [] merge_mode = "update_duplicates" ->
                        LET same == {j \in 1..Len(existing_dashboards) :
                                       lower(existing_dashboards[j].name) = dashboard_name_lower}
                            replaced ==
                                IF same = {} THEN existing_dashboards
                                ELSE [existing_dashboards EXCEPT
                                        ![CHOOSE j \in same : \A k \in same : j <= k] = validated]
                        IN ImportLoop(data, i + 1, merge_mode, replaced, existing_names,
                                      imported_count + 1)
                   [] OTHER ->
                        LET counter == FreeCounter(validated.name, existing_names, 1)
                            renamed == [validated EXCEPT !.name = Renamed(validated.name, counter)]
                        IN ImportLoop(data, i + 1, merge_mode,
                                      Append(existing_dashboards, renamed),
                                      existing_names \cup {lower(renamed.name)},
                                      imported_count + 1)
            ELSE ImportLoop(data, i + 1, merge_mode, Append(existing_dashboards, validated),
                            existing_names \cup {dashboard_name_lower}, imported_count + 1)

\* import_dashboards of a file that holds the list data
import_dashboards(data, merge_mode, write, f, c, fresh) ==
    LET l == load_dashboards(TRUE, f, c, fresh)
        existing_names == {lower(l.result[i].name) : i \in 1..Len(l.result)}
        done == ImportLoop(data, 1, merge_mode, l.result, existing_names, 0)
    IN IF done.imported_count > 0
       THEN SavedOrFalse(save_dashboards(done.dashboards, TRUE, write, f, l.cache, l.fresh))
       ELSE [result |-> "True", file |-> f, cache |-> l.cache, fresh |-> l.fresh]

\* the names of a list are pairwise distinct ignoring case
NamesUnique(ds) ==
    \A i, j \in 1..Len(ds) : i # j => lower(ds[i].name) # lower(ds[j].name)

\* the files a DashboardManager may find: none, an unreadable one, or a list
\* of dashboards with valid urls whose names are distinct ignoring case
InitialFiles ==
    {AbsentFile, CorruptFile} \cup
    { ListFile(ds) : ds \in
        { l \in ListsOf([name : DashboardNames, url_ok : {TRUE}], 2) : NamesUnique(l) } }

\* ---- the schedule workers and the background tasks: bounds ---------------------

MaxWorkers == 3

Workers == 1..MaxWorkers

MaxStartCalls == 2

StartCalls == 1..MaxStartCalls

\* a call of start_task that was not made yet
NotCalled == [at |-> "none", task_id |-> 0]

\* ---- the screenshot files -----------------------------------------------------
\* A capture is the dashboard's name (a sequence of characters) and the time
\* its screenshot was taken: the day and the milliseconds since midnight.

MaxFilenameLength == 100

\* 101 characters that end with c
LongName(c) == [i \in 1..(MaxFilenameLength + 1) |-> IF i <= MaxFilenameLength THEN "x" ELSE c]

CaptureNames ==
    { <<"a", "/", "b">>, <<"a", ":", "b">>, <<"a", "b">>, <<".">>, <<".", ".">>,
      LongName("a"), LongName("b") }

CaptureTimes == [day : {1, 2}, ms : {0, 400, 1000}]

\* the captures of a run: two dashboards with different names
Captures ==
    { c \in [1..2 -> [name : CaptureNames, at : CaptureTimes]] : c[1].name # c[2].name }

\* re.sub(r'[<>:"/\\|?*]', '_', filename)
InvalidChars == {"<", ">", ":", "\"", "/", "\\", "|", "?", "*"}

ReplaceInvalid(filename) ==
    [i \in 1..Len(filename) |-> IF filename[i] \in InvalidChars THEN "_" ELSE filename[i]]

\* re.sub(r'[\x00-\x1f\x7f]', '', filename)
RemoveControl(filename) == SelectSeq(filename, LAMBDA c : c \notin {"\t", "\n", "\r"})

\* filename.strip(' .')
RECURSIVE Strip(_)
Strip(filename) ==
    IF filename = <<>> THEN filename
    ELSE IF Head(filename) \in {" ", "."} THEN Strip(Tail(filename))
    ELSE IF filename[Len(filename)] \in {" ", "."}
         THEN Strip(SubSeq(filename, 1, Len(filename) - 1))
    ELSE filename

\* _sanitize_filename
sanitize_filename(name) ==
    LET stripped == Strip(RemoveControl(ReplaceInvalid(name)))
        filename == IF stripped = <<>> THEN <<"unnamed_dashboard">> ELSE stripped
    IN IF Len(filename) > MaxFilenameLength
       THEN SubSeq(filename, 1, MaxFilenameLength)
       ELSE filename

\* datetime.now(Config.EST).strftime('%H%M%S'): the time of day in whole seconds
Timestamp(at) == ToString(at.ms \div 1000)

\* the path save_screenshot_to_tmp writes: the directory of the day and
\* f"{safe_name}_{timestamp}.png"
file_path(c) ==
    [day_tmp_dir |-> c.at.day,
     filename |-> sanitize_filename(c.name) \o <<"_", Timestamp(c.at), ".png">>]

\* ---- status updates ------------------------------------------------------------
\* The stored dashboards are a list of records with distinct names
\* (add_dashboard refuses a name that exists).  The tree shows one row for
\* each, whose item id is the index of the dashboard in the stored list.

StoredNames == <<"A", "B", "C">>

Stored == 1..Len(StoredNames)

\* [db for db in self.session['dashboards'] if db.get('selected')]
SelectedDbs(sel) ==
    [i \in 1..Cardinality(sel) |->
        CHOOSE x \in sel : Cardinality({y \in sel : y < x}) = i - 1]

\* `for db in dashboards: if db['name'] == name: ...; break`: the index of the
\* first stored dashboard of that name (the tree is searched the same way)
FirstNamed(name) ==
    CHOOSE i \in Stored :
        StoredNames[i] = name /\ \A j \in 1..(i - 1) : StoredNames[j] # name

\* the row treeview.set(str(idx), ...) changes, idx counting from 0
RowOfId(idx) == idx + 1

NothingIssued == [for |-> 0, by |-> "none", returned |-> "none", status |-> "none"]

\* ---- initial state --------------------------------------------------------

\* the variables of the runs before any run
RunsIdle ==
    /\ finished = <<>>
    /\ response = [d \in Dashboards |-> "none"]
    /\ dialog = "none"
    /\ schedule_active = FALSE
    /\ earlier = {}

\* the variables of the encoder when it is not being applied
EncoderIdle ==
    /\ base_url = <<>>
    /\ start_dt = NoTime
    /\ end_dt = NoTime
    /\ is_studio = FALSE
    /\ full_url = <<>>
    /\ calls = <<>>

\* the variables of the detector when it is not being applied
DetectorIdle ==
    /\ page = [shows |-> {}, url |-> <<>>]
    /\ dashboard_type = "none"
    /\ probes = 0

\* the variables of the authentication handler when it is not being applied
HandlerIdle ==
    /\ login_page = NoLoginPage
    /\ login = NotLoggedIn

\* the variables of the waiter when it is not being applied
WaiterIdle ==
    /\ readiness = NoReadiness
    /\ waited = NotWaited

\* no dashboards selected, every stored dashboard Pending, nothing issued
UpdateIdle ==
    /\ selected_dbs = <<>>
    /\ db_status = [i \in Stored |-> "Pending"]
    /\ treeview = [i \in Stored |-> "Pending"]
    /\ issued = NothingIssued

\* the variables of the capture sizing when it is not being applied
ViewIdle ==
    /\ shot = NoShot
    /\ viewport = NotSized

\* the dashboard store when no DashboardManager is used
StoreIdle ==
    /\ file = AbsentFile
    /\ cache = NoCache
    /\ cache_fresh = FALSE
    /\ before = [file |-> AbsentFile, cache |-> NoCache]
    /\ last = NoCall

\* no capture has been made
FilesIdle ==
    /\ captures = <<>>
    /\ saved = <<>>

\* no schedule worker was started
ScheduleIdle ==
    /\ schedule_thread = 0
    /\ workers = [w \in Workers |-> "none"]
    /\ dismissed = {}
    /\ late = {}

\* BackgroundTaskManager.__init__
TasksIdle ==
    /\ tasks = [t \in {} |-> "none"]
    /\ task_counter = 0
    /\ start_pc = [c \in StartCalls |-> NotCalled]
    /\ thread_pc = [c \in StartCalls |-> "none"]

LibIdle ==
    /\ ViewIdle
    /\ StoreIdle
    /\ FilesIdle
    /\ ScheduleIdle
    /\ TasksIdle

\* the functions of a session step and the status update are not applied
StepIdle ==
    /\ EncoderIdle
    /\ DetectorIdle
    /\ HandlerIdle
    /\ WaiterIdle
    /\ UpdateIdle

\* the variables of the pure functions when none is being applied
FnIdle ==
    /\ EncoderIdle
    /\ DetectorIdle
    /\ HandlerIdle
    /\ WaiterIdle
    /\ UpdateIdle
    /\ LibIdle

AppInit ==
    /\ RunsIdle
    /\ cancel_flag = FALSE
    /\ current_thread = "None"
    /\ cancel_button = FALSE
    /\ destroy_pending = FALSE
    /\ destroyed = FALSE
    /\ kind = "none"
    /\ phase = "idle"
    /\ total = 0
    /\ capture_only = FALSE
    /\ limit = 0
    /\ semaphore = 0
    /\ pc = [d \in Dashboards |-> "none"]
    /\ attempts = [d \in Dashboards |-> 0]
    /\ success = [d \in Dashboards |-> "none"]
    /\ browser = {}
    /\ status = [d \in Dashboards |-> "Pending"]
    /\ reports = [d \in Dashboards |-> 0]
    /\ completed = 0
    /\ results = <<>>
    /\ cancel_seen = FALSE

Init == AppInit /\ FnIdle

\* ---- starting a run -------------------------------------------------------

\* The state a new run begins in: the semaphore is created, one task per
\* dashboard is handed to asyncio.gather.  The run is given dashboards that
\* were not run before: their status is the "Pending" that load_dashboards
\* and add_dashboard give a dashboard.
InitRun(k, n, mc, co) ==
    /\ kind' = k
    /\ phase' = "running"
    /\ total' = n
    /\ capture_only' = co
    /\ limit' = SemaphoreSize(k, mc)
    /\ semaphore' = SemaphoreSize(k, mc)
    /\ pc' = [d \in Dashboards |-> IF d <= n THEN "queued" ELSE "none"]
    /\ attempts' = [d \in Dashboards |-> 0]
    /\ success' = [d \in Dashboards |-> "none"]
    /\ browser' = {}
    /\ reports' = [d \in Dashboards |-> 0]
    /\ completed' = 0
    /\ results' = <<>>
    /\ cancel_seen' = FALSE
    /\ status' = [d \in Dashboards |-> "Pending"]
    /\ finished' = <<>>
    /\ response' = [d \in Dashboards |-> "none"]
    /\ UNCHANGED fn_vars

\* The value cancel_flag has after self.cancel_flag.clear()
ClearedFlag(flag) == FALSE

\* The end of run_analysis_thread and of capture_screenshots_thread: the flag
\* is cleared, the thread of the run is started and Cancel is shown.  The
\* sessions a run in progress has open go on beside the new run.
StartThread(k) ==
    /\ \E n \in 1..(IF k = "analysis" THEN NumAnalysed ELSE NumDashboards) :
          InitRun(k, n, 0, k = "capture")
    /\ cancel_flag' = ClearedFlag(cancel_flag)
    /\ current_thread' = "thread"
    /\ cancel_button' = TRUE
    /\ earlier' = IF phase = "running" THEN {d \in Dashboards : InSession(d)} ELSE {}
    /\ UNCHANGED <<destroy_pending, destroyed>>

\* The test at the top of run_analysis_thread and capture_screenshots_thread
\* (`self.current_thread and self.current_thread.is_alive()` refuses).
NoThreadAlive ==
    /\ ~destroyed
    /\ kind # "batch"
    /\ phase # "running"
    /\ earlier = {}
    /\ ~(current_thread # "None")

\* run_analysis_thread pressed by the user: refuses while a thread is alive,
\* else opens the TimeRangeDialog; wait_window is the rest of it.
run_analysis_thread ==
    /\ NoThreadAlive
    /\ dialog = "none"
    /\ dialog' = "analysis"
    /\ UNCHANGED <<gui_vars, run_vars, task_vars, finished, response,
                   schedule_active, earlier, fn_vars>>

\* capture_screenshots_thread: the same for a capture-only run.
capture_screenshots_thread ==
    /\ NoThreadAlive
    /\ dialog = "none"
    /\ dialog' = "capture"
    /\ UNCHANGED <<gui_vars, run_vars, task_vars, finished, response,
                   schedule_active, earlier, fn_vars>>

\* run_scheduled_analysis: the schedule worker is started
run_scheduled_analysis ==
    /\ ~destroyed
    /\ kind # "batch"
    /\ dialog = "none"
    /\ ~schedule_active
    /\ schedule_active' = TRUE
    /\ UNCHANGED <<gui_vars, run_vars, task_vars, finished, response,
                   dialog, earlier, fn_vars>>

\* schedule_worker: the interval has passed and the worker posts
\* run_analysis_thread(scheduled_run=True) with master.after; Tk runs it, also
\* while a dialog is open.  A scheduled run asks for no time range: it
\* refuses while a thread is alive, else starts the thread at once.
schedule_worker ==
    /\ schedule_active
    /\ NoThreadAlive
    /\ StartThread("analysis")
    /\ UNCHANGED <<dialog, schedule_active>>

\* self.master.wait_window(time_dialog) returns: without a time range the
\* method returns, with one it goes on to start the thread.  The dialog holds
\* the grab, so no button of the main window is pressed while it is open.
wait_window ==
    /\ ~destroyed
    /\ dialog # "none"
    /\ dialog' = "none"
    /\ UNCHANGED schedule_active
    /\ \/ UNCHANGED <<gui_vars, run_vars, task_vars, finished, response,
                      earlier, fn_vars>>
       \/ StartThread(dialog)

\* process_dashboards_batch has no caller in the GUI: the process that calls
\* it is a headless one, not the GUI application.
process_dashboards_batch ==
    /\ ~destroyed
    /\ kind \in {"none", "batch"}
    /\ dialog = "none"
    /\ ~schedule_active
    /\ phase # "running"
    /\ \E n \in 1..NumDashboards, mc \in 0..MaxConcurrentArg, co \in BOOLEAN :
          InitRun("batch", n, mc, co)
    /\ UNCHANGED <<gui_vars, dialog_vars>>

\* ---- the tasks ------------------------------------------------------------

SetTask(p, a, su, b, st, rp, c, s) ==
    /\ pc' = p
    /\ attempts' = a
    /\ success' = su
    /\ browser' = b
    /\ status' = st
    /\ reports' = rp
    /\ completed' = c
    /\ semaphore' = s
    /\ UNCHANGED <<gui_vars, run_vars, finished, dialog_vars, fn_vars>>

\* The task returns because it saw the cancellation flag: the `async with`
\* releases the permit, nothing is posted and `completed` is not increased.
ReturnCancelled(d, s) ==
    /\ SetTask([pc EXCEPT ![d] = "done"], attempts, success, browser, status,
               reports, completed, Release(s))
    /\ UNCHANGED response

\* The session of dashboard d has ended with r ("True", "False" or "exc") and
\* the orchestrator handles it, up to the task's next await or its end.
\* For a batch run the value is what gather stores for the task.
Handle(d, r, st, s, b) ==
    LET o == Outcome(kind, r, attempts'[d] - 1)
        ends == o.next = "done"
    IN  /\ pc' = [pc EXCEPT ![d] = o.next]
        /\ success' = [success EXCEPT ![d] = r]
        /\ browser' = b
        /\ status' = IF kind = "batch" THEN st ELSE [st EXCEPT ![d] = o.status]
        /\ reports' = IF o.terminal THEN [reports EXCEPT ![d] = @ + 1] ELSE reports
        /\ completed' = IF ends /\ kind # "batch" THEN Counted(completed) ELSE completed
        /\ semaphore' = IF ends THEN Release(s) ELSE s
        /\ finished' = IF ends /\ kind = "batch" THEN Append(finished, d) ELSE finished
        /\ response' = [response EXCEPT ![d] = "none"]
        /\ UNCHANGED <<gui_vars, run_vars, dialog_vars, fn_vars>>

\* The orchestrator calls process_single_dashboard: the call runs up to its
\* first await (the browser launch), unless entering timing_context raises.
StartAttempt(d, st, s) ==
    /\ attempts' = [attempts EXCEPT ![d] = @ + 1]
    /\ \/ /\ pc' = [pc EXCEPT ![d] = "launch"]
          /\ success' = [success EXCEPT ![d] = "none"]
          /\ status' = st
          /\ semaphore' = s
          /\ UNCHANGED <<browser, reports, completed, gui_vars, run_vars,
                         finished, response, dialog_vars, fn_vars>>
       \/ Handle(d, "exc", st, s, browser)

\* `async with semaphore:` and the code up to the first await of the task.
\* asyncio wakes waiters in FIFO order and gather starts the tasks in input
\* order, so permits are taken in input order.
Acquire(d) ==
    /\ ~destroyed
    /\ phase = "running"
    /\ pc[d] = "queued"
    /\ \A e \in 1..(d - 1) : pc[e] # "queued"
    /\ CanAcquire(semaphore)
    /\ IF kind # "batch" /\ CancelCheck(cancel_flag)
       THEN ReturnCancelled(d, semaphore - 1)
       ELSE StartAttempt(d,
                CASE kind = "analysis" -> [status EXCEPT ![d] = "Processing"]
                  [] kind = "capture"  -> [status EXCEPT ![d] = "Capturing"]
                  [] OTHER -> status,
                semaphore - 1)

\* asyncio.sleep(2) returns: next iteration of the retry loop.
Wake(d) ==
    /\ ~destroyed
    /\ pc[d] = "sleep"
    /\ IF CancelCheck(cancel_flag)
       THEN ReturnCancelled(d, semaphore)
       ELSE StartAttempt(d, status, semaphore)

\* ---- the session: process_single_dashboard --------------------------------

\* A step of the session that only moves on inside the session; o is what
\* the step gave, kept for the steps that follow it.
Goto(d, p, r, b, o) ==
    /\ SetTask([pc EXCEPT ![d] = p], attempts, [success EXCEPT ![d] = r], b,
               status, reports, completed, semaphore)
    /\ response' = [response EXCEPT ![d] = o]

\* The value process_single_dashboard hands to its caller when it leaves with
\* result r: r itself, or an exception if leaving timing_context raises.
Leaves(r) == {r, "exc"}

\* browser = await self._launch_browser(playwright)
Launch(d) ==
    /\ ~destroyed
    /\ pc[d] = "launch"
    /\ \/ Goto(d, "navigate", "none", browser \cup {d}, "none")
       \/ \* the launch raises: `browser` is None, nothing to close, return False
          /\ attempts' = attempts
          /\ \E r \in Leaves("False") : Handle(d, r, status, semaphore, browser)

\* context, page, monitoring and _navigate_to_dashboard
Navigate(d) ==
    /\ ~destroyed
    /\ pc[d] = "navigate"
    /\ \E o \in NavigationOutcomes :
          IF NavigationOk(o) THEN Goto(d, "authenticate", "none", browser, o)
                             ELSE Goto(d, "close", "False", browser, o)

\* _handle_authentication
Authenticate(d) ==
    /\ ~destroyed
    /\ pc[d] = "authenticate"
    /\ \E r \in LoginResults :
          LET next == AfterAuthentication(r = "True")
          IN  Goto(d, next.pc, next.success, browser, "none")

\* _wait_for_dashboard_load begins with _detect_dashboard_type; the type is
\* kept for the wait
Detect(d) ==
    /\ ~destroyed
    /\ pc[d] = "detect"
    /\ \E type \in DetectedTypes : Goto(d, "wait", "none", browser, type)

\* _wait_for_dashboard_load goes on with the wait of the type detected: its
\* result is only logged
WaitForLoad(d) ==
    /\ ~destroyed
    /\ pc[d] = "wait"
    /\ \E g \in WaitsGiven :
          /\ g.variant = response[d]
          /\ LET next == AfterWait(g.gave = "loaded")
             IN  Goto(d, next.pc, next.success, browser, g.gave)

\* _capture_screenshot, then the choice whether to analyse
Capture(d) ==
    /\ ~destroyed
    /\ pc[d] = "capture"
    /\ \E screenshot_success \in BOOLEAN :
          IF ~capture_only /\ screenshot_success
          THEN Goto(d, "analysis", "none", browser, "none")
          ELSE Goto(d, "close", IF screenshot_success THEN "True" ELSE "False",
                    browser, "none")

\* _perform_dashboard_analysis
Analyse(d) ==
    /\ ~destroyed
    /\ pc[d] = "analysis"
    /\ \E analysis_success \in BOOLEAN :
          Goto(d, "close", IF analysis_success THEN "True" ELSE "False",
               browser, "none")

LeftOpen(b, d) == b

\* The browser of dashboard d after `await browser.close()`
Closed(b, d) == b \ {d}

\* finally: await browser.close(); then the session returns to its caller,
\* which handles the result.
Close(d) ==
    /\ ~destroyed
    /\ pc[d] = "close"
    /\ attempts' = attempts
    /\ \E r \in Leaves(success[d]) : Handle(d, r, status, semaphore, Closed(browser, d))

\* ---- the end of a run -----------------------------------------------------

GatherFailFast ==
    \/ \A d \in RunSet : pc[d] = "done"
    \/ \E d \in RunSet : pc[d] = "done" /\ success[d] # "True"

\* asyncio.gather(..., return_exceptions=True) returns when every task is done
GatherDone == \A d \in RunSet : pc[d] = "done"

FlagResetOnComplete(flag) == FALSE

\* The value cancel_flag has after _analysis_complete: it does not touch it
FlagAfterComplete(flag) == flag

\* analyze_dashboards_async / _capture_screenshots_async return, the wrapper's
\* finally posts _analysis_complete and the thread ends.
analysis_complete ==
    /\ ~destroyed
    /\ phase = "running"
    /\ kind \in {"analysis", "capture"}
    /\ GatherDone
    /\ phase' = "ended"
    /\ current_thread' = "None"
    /\ cancel_button' = FALSE
    /\ cancel_flag' = FlagAfterComplete(cancel_flag)
    /\ UNCHANGED <<destroy_pending, destroyed, kind, total,
                   capture_only, limit, results, cancel_seen, task_vars,
                   finished, response, dialog_vars, fn_vars>>

\* process_dashboards_batch returns its list: exceptions become False
batch_return ==
    /\ ~destroyed
    /\ phase = "running"
    /\ kind = "batch"
    /\ GatherDone
    /\ phase' = "ended"
    /\ results' = ExceptionsToFalse(GatherResults(finished, success, total))
    /\ UNCHANGED <<gui_vars, kind, total, capture_only, limit, cancel_seen, task_vars,
                   finished, response, dialog_vars, fn_vars>>

\* The run that was overtaken ends: its sessions have returned, its wrapper
\* posts _analysis_complete, which hides Cancel and forgets the thread, the
\* thread of the newer run included.
earlier_complete ==
    /\ ~destroyed
    /\ earlier # {}
    /\ earlier' = {}
    /\ current_thread' = "None"
    /\ cancel_button' = FALSE
    /\ UNCHANGED <<cancel_flag, destroy_pending, destroyed, run_vars, task_vars,
                   finished, response, dialog, schedule_active, fn_vars>>

\* ---- the user -------------------------------------------------------------

\* _cancel_operation (the Cancel button is only there during a run)
cancel_operation ==
    /\ ~destroyed
    /\ cancel_button
    /\ dialog = "none"
    /\ cancel_flag' = TRUE
    /\ cancel_seen' = (cancel_seen \/ phase = "running")
    /\ UNCHANGED <<current_thread, cancel_button, destroy_pending, destroyed,
                   kind, phase, total, capture_only, limit, results, task_vars,
                   finished, response, dialog_vars, fn_vars>>

\* The process has exited: nothing of its state is left but the browsers it
\* launched and did not close.
Exited ==
    /\ destroyed' = TRUE
    /\ destroy_pending' = FALSE
    /\ current_thread' = "None"
    /\ cancel_button' = FALSE
    /\ kind' = "none"
    /\ phase' = "exited"
    /\ total' = 0
    /\ capture_only' = FALSE
    /\ limit' = 0
    /\ semaphore' = 0
    /\ pc' = [d \in Dashboards |-> "none"]
    /\ attempts' = [d \in Dashboards |-> 0]
    /\ success' = [d \in Dashboards |-> "none"]
    /\ status' = [d \in Dashboards |-> "Pending"]
    /\ reports' = [d \in Dashboards |-> 0]
    /\ completed' = 0
    /\ results' = <<>>
    /\ cancel_seen' = FALSE
    /\ finished' = <<>>
    /\ response' = [d \in Dashboards |-> "none"]
    /\ dialog' = "none"
    /\ schedule_active' = FALSE
    /\ earlier' = {}
    /\ UNCHANGED <<browser, cancel_flag, fn_vars>>

\* on_closing: with a run in progress it sets the flag and arms the destroy
\* timer; otherwise it destroys the window at once.
on_closing ==
    /\ ~destroyed
    /\ kind # "batch"
    /\ dialog = "none"
    /\ \/ /\ current_thread # "None"
          /\ cancel_flag' = TRUE
          /\ cancel_seen' = (cancel_seen \/ phase = "running")
          /\ destroy_pending' = TRUE
          /\ UNCHANGED <<destroyed, current_thread, cancel_button, kind, phase,
                         total, capture_only, limit, results, task_vars,
                         finished, response, dialog_vars, fn_vars>>
       \/ /\ current_thread = "None"
          /\ Exited

\* master.destroy fired by the timer: mainloop ends and the process exits,
\* taking the daemon thread of the run with it.
destroy ==
    /\ ~destroyed
    /\ destroy_pending
    /\ Exited

TaskStep ==
    \E d \in Dashboards :
        \/ Acquire(d)
        \/ Wake(d)
        \/ Launch(d)
        \/ Navigate(d)
        \/ Authenticate(d)
        \/ Detect(d)
        \/ WaitForLoad(d)
        \/ Capture(d)
        \/ Analyse(d)
        \/ Close(d)

Next ==
    \/ run_analysis_thread
    \/ capture_screenshots_thread
    \/ wait_window
    \/ process_dashboards_batch
    \/ TaskStep
    \/ analysis_complete
    \/ batch_return
    \/ cancel_operation
    \/ on_closing
    \/ destroy

Spec == Init /\ [][Next]_vars

\* the application with the scheduled analysis
SchedNext ==
    \/ Next
    \/ run_scheduled_analysis
    \/ schedule_worker
    \/ earlier_complete

SchedSpec == Init /\ [][SchedNext]_vars

\* ---- the pure functions applied --------------------------------------------

\* the arguments of a call of the encoder, or the page given to the detector
FnInit ==
    /\ AppInit
    /\ \/ /\ base_url \in BaseUrls
          /\ start_dt \in TimeValues
          /\ end_dt \in TimeValues
          /\ is_studio \in BOOLEAN
          /\ full_url = <<>>
          /\ calls = <<>>
          /\ DetectorIdle /\ HandlerIdle /\ WaiterIdle /\ UpdateIdle /\ LibIdle
       \/ /\ page \in Pages
          /\ dashboard_type = "none"
          /\ probes = 0
          /\ EncoderIdle /\ HandlerIdle /\ WaiterIdle /\ UpdateIdle /\ LibIdle
       \/ /\ login_page \in LoginPages
          /\ login = NotLoggedIn
          /\ EncoderIdle /\ DetectorIdle /\ WaiterIdle /\ UpdateIdle /\ LibIdle
       \/ /\ readiness \in Readiness
          /\ waited = NotWaited
          /\ EncoderIdle /\ DetectorIdle /\ HandlerIdle /\ UpdateIdle /\ LibIdle
       \/ /\ \E sel \in (SUBSET Stored) \ {{}} : selected_dbs = SelectedDbs(sel)
          /\ db_status = [i \in Stored |-> "Pending"]
          /\ treeview = [i \in Stored |-> "Pending"]
          /\ issued = NothingIssued
          /\ EncoderIdle /\ DetectorIdle /\ HandlerIdle /\ WaiterIdle /\ LibIdle
       \/ /\ StepIdle
          /\ shot \in Shots
          /\ viewport = NotSized
          /\ StoreIdle /\ FilesIdle /\ ScheduleIdle /\ TasksIdle
       \/ /\ StepIdle
          /\ captures \in Captures
          /\ saved = <<>>
          /\ ViewIdle /\ StoreIdle /\ ScheduleIdle /\ TasksIdle

\* the encoder f is applied to the arguments, or once more to its own result
\* with the same time range and tag
Encode(f, url) ==
    /\ base_url' = url
    /\ calls' = Append(calls, f)
    /\ full_url' = IF f = "format_time_for_url"
                   THEN format_time_for_url(url, start_dt, end_dt, is_studio)
                   ELSE gui_format_time_for_url(url, start_dt, end_dt, is_studio)
    /\ UNCHANGED <<start_dt, end_dt, is_studio, det_vars, auth_vars, wait_vars,
                   upd_vars, lib_vars, app_vars>>

apply_format_time_for_url ==
    /\ base_url # <<>>
    /\ calls = <<>>
    /\ Encode("format_time_for_url", base_url)

apply_gui_format_time_for_url ==
    /\ base_url # <<>>
    /\ calls = <<>>
    /\ Encode("gui_format_time_for_url", base_url)

apply_again ==
    /\ Len(calls) = 1
    /\ Encode(calls[1], full_url)

apply_detect_dashboard_type ==
    /\ page.url # <<>>
    /\ dashboard_type = "none"
    /\ dashboard_type' = detect_dashboard_type(page).type
    /\ probes' = detect_dashboard_type(page).probes
    /\ UNCHANGED <<enc_vars, page, auth_vars, wait_vars, upd_vars, lib_vars, app_vars>>

\* login_success = await self._handle_authentication(page, ...)
apply_handle_authentication ==
    /\ login_page # NoLoginPage
    /\ login = NotLoggedIn
    /\ login' = handle_authentication(login_page)
    /\ UNCHANGED <<enc_vars, det_vars, login_page, wait_vars, upd_vars, lib_vars, app_vars>>

\* return await self._wait_for_studio_dashboard(page, name), or the classic one
apply_wait_for_dashboard ==
    /\ readiness # NoReadiness
    /\ waited = NotWaited
    /\ waited' \in wait_for_dashboard(readiness)
    /\ UNCHANGED <<enc_vars, det_vars, auth_vars, readiness, upd_vars, lib_vars, app_vars>>

\* What the await of process_single_dashboard gave the task when it posts a
\* status: nothing yet ("none"), a value, or an exception
SessionReturns == {"none", "True", "False", "exc"}

\* capture_with_semaphore: "Capturing" before the session, then the status
\* for what the session gave
CaptureStatus(r) == IF r = "none" THEN "Capturing" ELSE Outcome("capture", r, 0).status

\* wrapper of src/gui.py: the value of the session is not looked at; only an
\* exception gives "Failed: ..."
LegacyStatus(r) == IF r = "exc" THEN "Failed: e" ELSE "Screenshot Success"

\* The statuses a task posts for its dashboard
PostedStatuses == {"Capturing", "Captured", "Failed", "Error"}

\* SplunkAutomatorApp.update_dashboard_status(db['name'], st), posted by the
\* task of a selected dashboard: the record and the row are found by name
update_dashboard_status ==
    /\ selected_dbs # <<>>
    /\ issued = NothingIssued
    /\ \E k \in 1..Len(selected_dbs), st \in PostedStatuses, r \in SessionReturns :
          LET name == StoredNames[selected_dbs[k]]
          IN  /\ st = CaptureStatus(r)
              /\ db_status' = [db_status EXCEPT ![FirstNamed(name)] = st]
              /\ treeview' = [treeview EXCEPT ![FirstNamed(name)] = st]
              /\ issued' = [for |-> selected_dbs[k], by |-> "update_dashboard_status",
                            returned |-> r, status |-> st]
    /\ UNCHANGED <<enc_vars, det_vars, auth_vars, wait_vars, selected_dbs, lib_vars, app_vars>>

\* wrapper(db, idx) of src/gui.py, for idx, db in enumerate(dashboards) over the
\* selected dashboards: self.treeview.set(str(idx), column="Status", ...)
wrapper ==
    /\ selected_dbs # <<>>
    /\ issued = NothingIssued
    /\ \E idx \in 0..(Len(selected_dbs) - 1), r \in SessionReturns \ {"none"} :
          /\ treeview' = [treeview EXCEPT ![RowOfId(idx)] = LegacyStatus(r)]
          /\ issued' = [for |-> selected_dbs[idx + 1], by |-> "wrapper",
                        returned |-> r, status |-> LegacyStatus(r)]
    /\ UNCHANGED <<enc_vars, det_vars, auth_vars, wait_vars, selected_dbs, db_status,
                   lib_vars, app_vars>>

\* _capture_screenshot is given the page
apply_capture_viewport ==
    /\ shot # NoShot
    /\ viewport = NotSized
    /\ viewport' = capture_viewport(shot)
    /\ UNCHANGED <<step_vars, shot, except_view, app_vars>>

\* _capture_screenshot of the next capture saves its screenshot
save_screenshot_to_tmp ==
    /\ Len(saved) < Len(captures)
    /\ saved' = Append(saved, file_path(captures[Len(saved) + 1]))
    /\ UNCHANGED <<step_vars, captures, except_file, app_vars>>

FnNext ==
    \/ apply_format_time_for_url
    \/ apply_gui_format_time_for_url
    \/ apply_again
    \/ apply_detect_dashboard_type
    \/ apply_handle_authentication
    \/ apply_wait_for_dashboard
    \/ update_dashboard_status
    \/ wrapper
    \/ apply_capture_viewport
    \/ save_screenshot_to_tmp

FnSpec == FnInit /\ [][FnNext]_vars

\* ---- the schedule workers -----------------------------------------------------
\* run_scheduled_analysis starts a schedule_worker thread; the thread reads
\* self.schedule_active every ten seconds and before it posts a run.

\* the application's state but the schedule flag
but_schedule_active == <<gui_vars, run_vars, task_vars, finished, response, dialog, earlier>>

\* the worker threads that have not returned
AliveWorkers == {w \in Workers : workers[w] \in {"wait", "run"}}

\* run_scheduled_analysis with a schedule_config
call_run_scheduled_analysis ==
    /\ ~schedule_active
    /\ \E w \in Workers :
          /\ workers[w] = "none"
          /\ \A v \in 1..(w - 1) : workers[v] # "none"
          /\ schedule_active' = TRUE
          /\ schedule_thread' = w
          /\ workers' = [workers EXCEPT ![w] = "wait"]
    /\ UNCHANGED <<dismissed, late, step_vars, except_sched, but_schedule_active>>

\* cancel_scheduled_analysis while a schedule is active
call_cancel_scheduled_analysis ==
    /\ schedule_active
    /\ schedule_active' = FALSE
    /\ schedule_thread' = 0
    /\ dismissed' = dismissed \cup AliveWorkers
    /\ UNCHANGED <<workers, late, step_vars, except_sched, but_schedule_active>>

\* schedule_worker reads the flag: at the head of its loop, after a wait of
\* ten seconds, or when the interval has passed. It returns when the flag is
\* down, waits again, or goes on to post a run.
worker_checks(w) ==
    /\ workers[w] = "wait"
    /\ IF ~schedule_active
       THEN workers' = [workers EXCEPT ![w] = "gone"]
       ELSE workers' = [workers EXCEPT ![w] = "run"]
    /\ UNCHANGED <<schedule_active, schedule_thread, dismissed, late, step_vars,
                   except_sched, but_schedule_active>>

\* schedule_worker selects the scheduled dashboards and posts
\* run_analysis_thread(scheduled_run=True), then loops
worker_posts(w) ==
    /\ workers[w] = "run"
    /\ workers' = [workers EXCEPT ![w] = "wait"]
    /\ late' = IF w \in dismissed THEN late \cup {w} ELSE late
    /\ UNCHANGED <<schedule_active, schedule_thread, dismissed, step_vars,
                   except_sched, but_schedule_active>>

ScheduleNext ==
    \/ call_run_scheduled_analysis
    \/ call_cancel_scheduled_analysis
    \/ \E w \in Workers : worker_checks(w)
    \/ \E w \in Workers : worker_posts(w)

ScheduleSpec == Init /\ [][ScheduleNext]_vars

\* ---- the background tasks -----------------------------------------------------
\* Calls of BackgroundTaskManager.start_task, from any threads, and the
\* threads they start. Each `with self.lock:` block is one step.

\* the state but the background tasks
but_tasks == <<step_vars, except_btm, app_vars>>

\* with self.lock: task_id = self.task_counter; self.task_counter += 1
start_task_counts(c) ==
    /\ start_pc[c].at = "none"
    /\ start_pc' = [start_pc EXCEPT ![c] = [at |-> "counted", task_id |-> task_counter]]
    /\ task_counter' = task_counter + 1
    /\ UNCHANGED <<tasks, thread_pc, but_tasks>>

\* with self.lock: self.tasks[task_id] = {..., 'status': 'starting'}
start_task_registers(c) ==
    /\ start_pc[c].at = "counted"
    /\ start_pc' = [start_pc EXCEPT ![c].at = "registered"]
    /\ tasks' = [t \in DOMAIN tasks \cup {start_pc[c].task_id} |->
                    IF t = start_pc[c].task_id THEN "starting" ELSE tasks[t]]
    /\ UNCHANGED <<task_counter, thread_pc, but_tasks>>

\* thread.start()
start_task_starts(c) ==
    /\ start_pc[c].at = "registered"
    /\ start_pc' = [start_pc EXCEPT ![c].at = "started"]
    /\ thread_pc' = [thread_pc EXCEPT ![c] = "target"]
    /\ UNCHANGED <<tasks, task_counter, but_tasks>>

\* with self.lock: self.tasks[task_id]['status'] = 'running'; return task_id.
\* The subscript raises KeyError when the entry is gone.
start_task_marks(c) ==
    /\ start_pc[c].at = "started"
    /\ IF start_pc[c].task_id \in DOMAIN tasks
       THEN /\ tasks' = [tasks EXCEPT ![start_pc[c].task_id] = "running"]
            /\ start_pc' = [start_pc EXCEPT ![c].at = "returned"]
       ELSE /\ tasks' = tasks
            /\ start_pc' = [start_pc EXCEPT ![c].at = "raised"]
    /\ UNCHANGED <<task_counter, thread_pc, but_tasks>>

\* task_wrapper: target_func returns or raises, the callback is called
task_wrapper_runs(c) ==
    /\ thread_pc[c] = "target"
    /\ thread_pc' = [thread_pc EXCEPT ![c] = "finally"]
    /\ UNCHANGED <<tasks, task_counter, start_pc, but_tasks>>

\* task_wrapper, finally: with self.lock: del self.tasks[task_id] if it is there
task_wrapper_finally(c) ==
    /\ thread_pc[c] = "finally"
    /\ thread_pc' = [thread_pc EXCEPT ![c] = "gone"]
    /\ tasks' = [t \in DOMAIN tasks \ {start_pc[c].task_id} |-> tasks[t]]
    /\ UNCHANGED <<task_counter, start_pc, but_tasks>>

TaskNext ==
    \/ \E c \in StartCalls : start_task_counts(c)
    \/ \E c \in StartCalls : start_task_registers(c)
    \/ \E c \in StartCalls : start_task_starts(c)
    \/ \E c \in StartCalls : start_task_marks(c)
    \/ \E c \in StartCalls : task_wrapper_runs(c)
    \/ \E c \in StartCalls : task_wrapper_finally(c)

TaskSpec == Init /\ [][TaskNext]_vars

\* ---- the dashboard store: specifications ---------------------------------------
\* A DashboardManager is constructed over a file and its methods are called
\* one after another.

StoreInit ==
    /\ AppInit
    /\ StepIdle
    /\ ViewIdle /\ FilesIdle /\ ScheduleIdle /\ TasksIdle
    /\ file \in InitialFiles
    /\ cache = NoCache
    /\ cache_fresh = FALSE
    /\ before = [file |-> file, cache |-> cache]
    /\ last = NoCall

\* the state a call leaves, s being what its operator gives
StoreAfter(op, s) ==
    /\ file' = s.file
    /\ cache' = s.cache
    /\ cache_fresh' = s.fresh
    /\ before' = [file |-> file, cache |-> cache]
    /\ last' = [op |-> op, result |-> s.result, served |-> "none", loaded |-> <<>>]

call_save_dashboards ==
    \E dashboards \in ListsOf(DashboardDicts, MaxImported), create_backup \in BOOLEAN,
       write \in WriteOutcomes :
          /\ StoreAfter("save_dashboards",
                        save_dashboards(dashboards, create_backup, write, file, cache,
                                        cache_fresh))
          /\ UNCHANGED <<step_vars, except_store, app_vars>>

call_load_dashboards ==
    \E use_cache \in BOOLEAN :
        LET l == load_dashboards(use_cache, file, cache, cache_fresh)
        IN /\ cache' = l.cache
           /\ cache_fresh' = l.fresh
           /\ before' = [file |-> file, cache |-> cache]
           /\ last' = [op |-> "load_dashboards", result |-> "list", served |-> l.served,
                       loaded |-> l.result]
           /\ UNCHANGED <<file, step_vars, except_store, app_vars>>

\* more than cache_ttl seconds pass
cache_expires ==
    /\ cache_fresh
    /\ cache_fresh' = FALSE
    /\ UNCHANGED <<file, cache, before, last, step_vars, except_store, app_vars>>

\* the number of dashboards load_dashboards() would give
StoredCount == Len(load_dashboards(TRUE, file, cache, cache_fresh).result)

call_add_dashboard ==
    /\ StoredCount < MaxStored
    /\ \E name \in DashboardNames, url_ok \in BOOLEAN, write \in WriteOutcomes :
          /\ StoreAfter("add_dashboard",
                        add_dashboard(name, url_ok, write, file, cache, cache_fresh))
          /\ UNCHANGED <<step_vars, except_store, app_vars>>

call_update_dashboard ==
    \E dashboard_name \in DashboardNames, updates \in [name : DashboardNames, url_ok : BOOLEAN],
       write \in WriteOutcomes :
          /\ StoreAfter("update_dashboard",
                        update_dashboard(dashboard_name, updates, write, file, cache,
                                         cache_fresh))
          /\ UNCHANGED <<step_vars, except_store, app_vars>>

call_delete_dashboards ==
    \E dashboard_names \in SUBSET DashboardNames, write \in WriteOutcomes :
          /\ StoreAfter("delete_dashboards",
                        delete_dashboards(dashboard_names, write, file, cache, cache_fresh))
          /\ UNCHANGED <<step_vars, except_store, app_vars>>

call_import_dashboards ==
    \E data \in ListsOf(DashboardDicts, MaxImported), merge_mode \in MergeModes,
       write \in WriteOutcomes :
        /\ StoredCount + Len(data) <= MaxStored
        /\ StoreAfter("import_dashboards",
                      import_dashboards(data, merge_mode, write, file, cache, cache_fresh))
        /\ UNCHANGED <<step_vars, except_store, app_vars>>

\* save_dashboards and load_dashboards called on one DashboardManager
StoreNext ==
    \/ call_save_dashboards
    \/ call_load_dashboards
    \/ cache_expires

StoreSpec == StoreInit /\ [][StoreNext]_vars

\* the operations on the store called on one DashboardManager
ManagerNext ==
    \/ call_add_dashboard
    \/ call_update_dashboard
    \/ call_delete_dashboards
    \/ call_import_dashboards
    \/ call_load_dashboards
    \/ cache_expires

ManagerSpec == StoreInit /\ [][ManagerNext]_vars

\* The event loop runs every task that can take a step, and a coroutine whose
\* gather has completed returns.
FairSpec ==
    /\ Init
    /\ [][Next]_vars
    /\ WF_vars(TaskStep)
    /\ WF_vars(analysis_complete)
    /\ WF_vars(batch_return)

\* ---- properties -----------------------------------------------------------

InRun == phase \in {"running", "ended"}

GuiRun == kind \in {"analysis", "capture"}

C2_ExactlyOneResult ==
    phase = "ended" =>
        /\ GuiRun => \A d \in RunSet : reports[d] = 1 \/ attempts[d] = 0
        /\ kind = "batch" => DOMAIN results = RunSet

\* C3 as stated: in a full-analysis or capture-only run without cancellation
\* a dashboard whose session has failed to the end (its last session returned
\* failure, so none before it succeeded) has had exactly `retries` attempts
\* and is reported Failed.
C3_RetriesExhausted ==
    (phase = "ended" /\ GuiRun /\ ~cancel_seen) =>
        \A d \in RunSet :
            success[d] = "False" => (attempts[d] = retries /\ status[d] = "Failed")

C5_SessionStopsAtCheckpoint ==
    [][cancel_flag =>
          \A d \in Dashboards :
              pc'[d] # pc[d] =>
                  pc'[d] \notin {"navigate", "authenticate", "detect", "wait",
                                    "capture", "analysis"}]_vars

\* C6 as stated: a session that has reported its result holds no open browser,
\* and when a run has ended, by returning or by the application closing, no
\* browser launched by it is still open.
C6_BrowsersReleased ==
    /\ \A d \in Dashboards : ~InSession(d) /\ phase # "exited" => d \notin browser
    /\ phase \in {"ended", "exited"} => browser = {}

\* C7: when a run that was not cancelled has ended, every dashboard has its
\* own terminal outcome, decided by its own attempts alone, whatever happened
\* to the other dashboards: success on its last attempt, or failure after all
\* the attempts its orchestrator makes.
C7_OutcomesIndependent ==
    (phase = "ended" /\ ~cancel_seen) =>
        \A d \in RunSet :
            /\ pc[d] = "done"
            /\ attempts[d] >= 1
            /\ kind = "analysis" =>
                  \/ status[d] = "Complete" /\ success[d] = "True"
                  \/ status[d] = "Failed" /\ success[d] \in {"False", "exc"}
                        /\ attempts[d] = retries
            /\ kind = "capture" =>
                  \/ status[d] = "Captured" /\ success[d] = "True"
                  \/ status[d] = "Failed" /\ success[d] = "False"
                  \/ status[d] = "Error" /\ success[d] = "exc"
            /\ kind = "batch" => results[d] = (success[d] = "True")

\* C7 witness: a full-analysis run has ended with one dashboard Failed after
\* all its attempts and another one Complete.
C7_Witness ==
    /\ kind = "analysis"
    /\ phase = "ended"
    /\ ~cancel_seen
    /\ \E d, e \in RunSet :
          /\ status[d] = "Failed" /\ attempts[d] = retries
          /\ status[e] = "Complete"

\* C8 as stated: once the cancellation flag is set no operation clears it.
C8_FlagNeverCleared == [][cancel_flag => cancel_flag']_vars

\* C8 amended: the flag is cleared only by the start of a run; from the moment
\* it is set until the next run is started it stays set.
C8_FlagClearedOnlyByRunStart ==
    [][(cancel_flag /\ ~cancel_flag') =>
          (phase # "running" /\ phase' = "running" /\ kind' \in {"analysis", "capture"})]_vars

\* C8 witness: the flag set during a run is still set after the run has ended.
C8_Witness == cancel_flag /\ phase = "ended" /\ cancel_seen

\* C9 as stated: when a run of the GUI has ended every dashboard of the run
\* carries a final status, none an intermediate one.
C9_FinalStatuses ==
    (phase = "ended" /\ GuiRun) =>
        \A d \in RunSet :
            status[d] \in {"Complete", "Captured", "Failed", "Error", "Cancelled", "Pending"}

\* C10: every run terminates (the orchestrator returns, unless the process
\* exits first), and the orchestrator has returned only when every task of
\* the run is done.
C10_RunTerminates ==
    /\ (phase = "running") ~> (phase \in {"ended", "exited"})
    /\ [](phase = "ended" => \A d \in RunSet : pc[d] = "done" /\ d \notin browser)

\* C10 witness: a capture-only run with more dashboards than permits has
\* returned after every dashboard was dispatched.
C10_Witness ==
    /\ phase = "ended"
    /\ kind = "capture"
    /\ total > limit
    /\ \A d \in RunSet : attempts[d] = 1

\* C11: the list process_dashboards_batch returns is in input order: entry i
\* is True exactly when the session of input dashboard i returned True, and
\* False when it returned False or raised, whatever the order in which the
\* sessions finished.
C11_ResultsInInputOrder ==
    (phase = "ended" /\ kind = "batch") =>
        /\ DOMAIN results = 1..total
        /\ \A i \in 1..total :
              /\ success[i] = "True" => results[i] = TRUE
              /\ success[i] \in {"False", "exc"} => results[i] = FALSE

\* C11 witness: a batch has returned in which a later dashboard finished with
\* True before an earlier one raised.
C11_Witness ==
    /\ phase = "ended"
    /\ kind = "batch"
    /\ \E i, j \in 1..total :
          /\ i < j
          /\ success[i] = "exc" /\ success[j] = "True"
          /\ finished[1] = j
          /\ results[i] = FALSE /\ results[j] = TRUE

\* C12 as stated: at any time a dashboard has at most one open session: no
\* session of a run is open for a dashboard for which a session of an earlier
\* run is still open.
C12_OneSessionPerDashboard ==
    \A d \in Dashboards : ~(d \in earlier /\ InSession(d))

\* C13 as stated: the prefix of the two parameter names is decided by the
\* variant tag alone: form.global_time when the tag is studio, form.time_field
\* when it is classic, whatever the text of the URL.
C13_PrefixByVariantTag ==
    (Len(calls) = 1 /\ start_dt.type # "bad" /\ end_dt.type # "bad") =>
        LET n == Len(full_url)
            prefix == IF is_studio THEN "form.global_time" ELSE "form.time_field"
        IN  full_url[n - 6] = prefix /\ full_url[n - 2] = prefix

\* C14: for every base URL and every well-formed time range the encoded URL
\* is the base URL up to its first '?', then '?' and exactly the two new
\* parameters, earliest and latest under one prefix; nothing of the original
\* query string is left.
C14_QueryReplaced ==
    (Len(calls) = 1 /\ start_dt.type # "bad" /\ end_dt.type # "bad") =>
        \E k \in 0..Len(base_url) :
            /\ \A j \in 1..k : base_url[j] # "?" /\ full_url[j] = base_url[j]
            /\ k = Len(base_url) \/ base_url[k + 1] = "?"
            /\ Len(full_url) = k + 8
            /\ full_url[k + 1] = "?"
            /\ full_url[k + 2] \in {"form.global_time", "form.time_field"}
            /\ full_url[k + 3] = ".earliest="
            /\ full_url[k + 5] = "&"
            /\ full_url[k + 6] = full_url[k + 2]
            /\ full_url[k + 7] = ".latest="

\* C14 witness: a base URL whose query string itself holds a '?' was encoded.
C14_Witness ==
    /\ Len(calls) = 1
    /\ start_dt.type # "bad" /\ end_dt.type # "bad"
    /\ \E i, j \in 1..Len(base_url) : i < j /\ base_url[i] = "?" /\ base_url[j] = "?"

\* C15: the encoder applied to its own result, with the same time range and
\* variant tag, gives that result again.
C15_Idempotent == Len(calls) = 2 => full_url = base_url

\* C15 witness: the encoder was applied to a URL it had encoded.
C15_Witness ==
    /\ Len(calls) = 2
    /\ calls[2] = "format_time_for_url"
    /\ \E i \in 1..Len(base_url) : base_url[i] = ".earliest="

\* C16: each end of the range is encoded on its own: a relative token is in
\* the URL unchanged, an instant as a whole number of epoch seconds (less than
\* a second from it), also when one end is a token and the other an instant.
C16_EndsEncodedSeparately ==
    (Len(calls) = 1 /\ start_dt.type # "bad" /\ end_dt.type # "bad") =>
        LET n == Len(full_url)
            Seconds(ms) == {ToString(q) : q \in {p \in -3..3 :
                                p * 1000 - ms < 1000 /\ ms - p * 1000 < 1000}}
        IN  /\ IF start_dt.type = "str" THEN full_url[n - 4] = start_dt.text
                                        ELSE full_url[n - 4] \in Seconds(start_dt.ms)
            /\ IF end_dt.type = "str" THEN full_url[n] = end_dt.text
                                      ELSE full_url[n] \in Seconds(end_dt.ms)

\* C16 witness: a range from a relative token to an instant was encoded.
C16_Witness ==
    /\ Len(calls) = 1
    /\ start_dt.type = "str" /\ end_dt.type = "datetime"
    /\ full_url[Len(full_url)] = "1"

\* C17 as stated: when the encoding raises, the encoder returns the base URL
\* exactly as it was given, its query string included.
C17_ReturnsUrlAsGiven ==
    (Len(calls) = 1 /\ (start_dt.type = "bad" \/ end_dt.type = "bad")) =>
        full_url = base_url

\* C18 as stated: the detector returns studio only when a Studio element is
\* found, and classic whenever neither a Studio nor a Classic element is found.
C18_StudioOnlyByElement ==
    dashboard_type # "none" =>
        /\ dashboard_type = "studio" => page.shows \cap Range(studio_selectors) # {}
        /\ page.shows = {} => dashboard_type = "classic"

\* C18 amended: the detector returns studio exactly when a Studio element is
\* found or the URL of the page contains 'studio' in any case, and classic
\* otherwise, whether or not a Classic element is found.
C18_StudioByElementOrUrl ==
    dashboard_type # "none" =>
        /\ dashboard_type \in {"studio", "classic"}
        /\ dashboard_type = "studio" <=>
              \/ page.shows \cap Range(studio_selectors) # {}
              \/ ContainsStudio(LowerUrl(page.url))

\* C18 witness: a page that shows a Classic element and no Studio element was
\* detected as studio, by its URL.
C18_Witness ==
    /\ dashboard_type = "studio"
    /\ page.shows \cap Range(studio_selectors) = {}
    /\ page.shows \cap Range(classic_selectors) # {}

C20_StepsInOrder ==
    [][\A d \in Dashboards :
          /\ pc'[d] # pc[d] =>
                /\ pc'[d] = "navigate" => pc[d] = "launch"
                /\ pc'[d] = "authenticate" => pc[d] = "navigate"
                /\ pc'[d] = "detect" => pc[d] = "authenticate"
                /\ pc'[d] = "wait" => pc[d] = "detect"
                /\ pc'[d] = "capture" => pc[d] = "wait"
          /\ (pc[d] = "navigate" /\ pc'[d] # "navigate" /\ ~destroyed') =>
                IF response'[d] = "timeout" \/ StatusOf(response'[d]) >= 400
                THEN pc'[d] = "close" /\ success'[d] = "False"
                ELSE pc'[d] = "authenticate"]_vars

\* C20 witness: an attempt whose navigation got HTTP 400 is about to close its
\* browser with the result False.
C20_Witness ==
    \E d \in RunSet :
        pc[d] = "close" /\ response[d] = "400" /\ success[d] = "False" /\ d \in browser

\* C21 as stated: when a login form is present (the username and password
\* inputs are found) and no submit control matches, the handler submits by
\* pressing Enter on the password field, and the login succeeds when the page
\* then leaves the login path.
C21_SubmitsWithEnter ==
    (login # NotLoggedIn /\ login_page.username /\ login_page.password
        /\ ~login_page.submit) =>
        /\ login.submitted = "Enter"
        /\ login_page.after = "left" => login.result = "True"

\* C22: when a login form is present and the password field is missing, or
\* the page is still on the login path when the login wait times out, the
\* handler returns False (nothing is raised to the session), and the session
\* returns False from there: the browser is closed, no screenshot is taken.
C22_LoginFailureReturnsFalse ==
    (login # NotLoggedIn /\ login_page.username
        /\ (~login_page.password \/ login_page.after = "stays")) =>
        /\ login.result = "False"
        /\ login.then = "close"

\* C22 witness: the handler has returned for a form with a password field and
\* a submit control on which the page stayed on the login path.
C22_Witness ==
    /\ login.result = "False"
    /\ login.submitted = "click"
    /\ login_page.password /\ login_page.after = "stays"

\* C23: when no username input is found the handler returns True, has filled
\* no field and submitted nothing, and the session goes on to the detection.
C23_NoFormIsSuccess ==
    (login # NotLoggedIn /\ ~login_page.username) =>
        /\ login.result = "True"
        /\ login.filled = {}
        /\ login.submitted = "none"
        /\ login.then = "detect"

\* C23 witness: the handler has returned for a page without a username input
\* that does show a password input and a submit control.
C23_Witness ==
    /\ login # NotLoggedIn
    /\ ~login_page.username /\ login_page.password /\ login_page.submit

\* C25 as stated: when the root container attaches, the waiter waits on every
\* condition of the variant, whichever of them time out, and makes the
\* stabilization pause before it returns.
C25_SoftTimeoutsSkipNothing ==
    (waited # NotWaited /\ waited.waited # <<>>
        /\ ConditionsOf(readiness.variant)[1] \in readiness.holds) =>
        /\ waited.waited = ConditionsOf(readiness.variant)
        /\ waited.paused

\* C30 as stated: a status update issued for the session of dashboard D
\* changes the status of the record and of the row of D and of no other
\* dashboard, whichever stored dashboards are selected.
C30_UpdatesOnlyItsDashboard ==
    issued # NothingIssued =>
        /\ treeview[issued.for] # "Pending"
        /\ \A i \in Stored \ {issued.for} :
              treeview[i] = "Pending" /\ db_status[i] = "Pending"

\* C24 as stated: when the root container of the variant does not attach
\* within its timeout the attempt ends as failed: the session goes on to
\* close its browser with the result False and captures nothing.
C24_RootTimeoutFailsAttempt ==
    [][\A d \in Dashboards :
          (pc[d] = "wait" /\ pc'[d] # "wait" /\ response'[d] = "root timeout") =>
              (pc'[d] = "close" /\ success'[d] = "False")]_vars

\* C26: when the waiter returns False the session does not fail: whatever
\* the wait gave, the step after it is the capture, with no result decided,
\* and the result of the attempt is set by the capture and the analysis.
C26_WaitResultOnlyLogged ==
    [][\A d \in Dashboards :
          /\ (pc[d] = "wait" /\ pc'[d] # "wait" /\ ~destroyed') =>
                (pc'[d] = "capture" /\ success'[d] = "none")
          /\ (pc[d] \in {"capture", "analysis"} /\ pc'[d] # pc[d] /\ ~destroyed') =>
                /\ pc'[d] \in {"analysis", "close"}
                /\ pc'[d] = "close" => success'[d] \in {"True", "False"}]_vars

\* C26 witness: a session whose waiter returned False after a timeout is
\* about to capture, no result decided.
C26_Witness ==
    \E d \in RunSet :
        pc[d] = "capture" /\ response[d] = "timeout" /\ success[d] = "none"

C31_SuccessReportedIffCaptured ==
    (issued # NothingIssued /\ issued.returned # "none") =>
        (issued.status \in {"Captured", "Screenshot Success"} <=> issued.returned = "True")

\* C32: for a page detected as Studio the viewport height is set to
\* min(contentHeight + 100, 10000), contentHeight being the scroll height
\* capped at 10000, so it never exceeds 10000; for a Classic page it is left
\* as it was; when the resize fails the height is left as it was too, and the
\* capture goes on to the screenshot in every case.
C32_ViewportHeight ==
    viewport # NotSized =>
        /\ viewport.proceeds
        /\ viewport.height <= 10000
        /\ (shot.type = "studio" /\ shot.resize = "done") =>
              \E contentHeight \in 0..10000 :
                  /\ contentHeight <= shot.scrollHeight
                  /\ contentHeight = 10000 \/ contentHeight = shot.scrollHeight
                  /\ viewport.height = IF contentHeight + 100 <= 10000
                                       THEN contentHeight + 100 ELSE 10000
        /\ (shot.type = "classic" \/ shot.resize = "raises") =>
              viewport.height = shot.height

\* C32 witness: a Studio page of scroll height 9901 was sized to 10000.
C32_Witness ==
    /\ viewport.proceeds
    /\ shot.type = "studio" /\ shot.resize = "done"
    /\ shot.scrollHeight = 9901 /\ viewport.height = 10000

\* C33: the names the store holds, in the file and as load_dashboards gives
\* them, stay pairwise distinct ignoring case under add_dashboard,
\* update_dashboard, delete_dashboards and import_dashboards in every merge mode.
C33_NamesStayUnique ==
    /\ NamesUnique(file.dashboards)
    /\ NamesUnique(load_dashboards(TRUE, file, cache, cache_fresh).result)

\* C38: a list load_dashboards served from the cache is the list
\* load_dashboards(use_cache=False) gives for the file.
C38_CacheTransparent ==
    (last.op = "load_dashboards" /\ last.served = "cache") =>
        last.loaded = load_dashboards(FALSE, file, cache, cache_fresh).result

\* C39: when save_dashboards has returned False the file and the cache are as
\* they were when it was called.
C39_FailedSaveChangesNothing ==
    (last.op = "save_dashboards" /\ last.result = "False") =>
        /\ file = before.file
        /\ cache = before.cache

\* the tasks of the run that are inside `async with semaphore`
Holders == {d \in RunSet : pc[d] \notin {"none", "queued", "done"}}

\* C34: a permit is taken by each task that enters `async with semaphore`
\* and given back exactly once when the task leaves it, on every path
\* (success, retries exhausted, return on cancellation, exception): the
\* semaphore's value is always the limit less the tasks inside, all permits
\* are free when the run has ended, and every dashboard that waits for a
\* permit is eventually dispatched or returns on the cancellation, unless the
\* process exits first.
C34_PermitsReleasedOnce ==
    /\ [](InRun => semaphore = limit - Cardinality(Holders))
    /\ [](phase = "ended" => semaphore = limit /\ Holders = {})
    /\ \A d \in Dashboards :
          (phase = "running" /\ d \in RunSet /\ pc[d] = "queued")
              ~> (pc[d] # "queued" \/ phase # "running")

\* C34 witness: a full-analysis run has ended with every permit free after
\* one task used up its retries and another returned on the cancellation
\* without a session.
C34_Witness ==
    /\ kind = "analysis"
    /\ phase = "ended"
    /\ semaphore = limit
    /\ \E d, e \in RunSet :
          /\ attempts[d] = retries /\ success[d] \in {"False", "exc"} /\ pc[d] = "done"
          /\ attempts[e] = 0 /\ pc[e] = "done"

\* C35: within one run two different dashboards never save their screenshots
\* to the same file path.
C35_PathsDistinct ==
    \A i, j \in 1..Len(saved) : i # j => saved[i] # saved[j]

\* C36: at most one schedule worker loop goes on while a schedule is active,
\* and a worker that was running when cancel_scheduled_analysis was called
\* posts no analysis run afterwards.
C36_OneWorkerNoLateRun ==
    /\ schedule_active => Cardinality(AliveWorkers) <= 1
    /\ late = {}

\* C37: no call of start_task raises, under every interleaving with the
\* thread it started.
C37_StartTaskReturns ==
    \A c \in StartCalls : start_pc[c].at # "raised"

====
